---- MODULE Spec2Model ----
(***************************************************************************)
(* Model of athena_stats.py: a driver thread (loop_and_fetch_stats) pulls  *)
(* query execution ids from the paginated generator get_execution_ids,     *)
(* groups them into batches of MAX_ATHENA_BATCH_SIZE and puts the batches  *)
(* on the queue q; max_threads daemon threads run do_work, each taking a   *)
(* batch, fetching its details, uploading them, and calling q.task_done(). *)
(* The driver finally waits in q.join().                                   *)
(*                                                                         *)
(* queue.Queue is modelled by its documented behaviour: put appends and    *)
(* adds one to unfinished_tasks, get blocks while the queue is empty and   *)
(* removes the head, task_done subtracts one from unfinished_tasks, join   *)
(* blocks while unfinished_tasks is not zero; each is atomic.              *)
(***************************************************************************)
EXTENDS Integers, Sequences, FiniteSets, Bags, TLC

\* Scale of the model.  The program fixes the batch size at 50 and the pool
\* at 25 threads; the model keeps the code's tests on these two numbers and
\* runs them at a small scale.
MaxIds == 5
MaxPages == 2
MAX_ATHENA_BATCH_SIZE == 2
max_threads == 2

Threads == 1..max_threads

VARIABLES
    pages,            \* the listing service: the pages it answers with, in token order
    dpc,              \* driver state: Idle, PoolStarted, Dispatching, Draining, Done, Aborted, Exited
    line,             \* driver position inside Dispatching: call, page, final, fetch, upload
    started,          \* number of threads started so far (lines 59-62)
    token,            \* query_params['NextToken'] of the generator, 0 when absent
    response,         \* QueryExecutionIds of the current response
    nextToken,        \* NextToken of the current response, 0 when absent
    pos,              \* number of ids of the current response already yielded
    execution_ids,    \* the driver's accumulating batch (line 64)
    counter,          \* the driver's batch counter (line 65)
    q,                \* the items queued in q
    unfinished_tasks, \* q.unfinished_tasks
    wpc,              \* thread position in do_work
    w_ids,            \* do_work's local execution_ids
    w_read,           \* value of num_processed a thread has loaded for its +=
    num_processed,    \* the global progress counter (line 27)
    submitted,        \* history: the batches put on q, in order
    deliveries,       \* history: <<thread, batch>> for every q.get that returned
    objects,          \* history: bag of <<uploader, batch>> put to the object store (0: the driver)
    acked,            \* history: bag of the batches whose task_done was called
    failedBatches,    \* history: batches whose processing raised in a thread
    counted,          \* history: sum of the lengths of the batches whose += completed
    yielded,          \* history: ids yielded by the generator, in order
    sourceFailed,     \* history: a listing call raised
    driverFailed,     \* history: the driver's own fetch or upload raised
    w_enc,            \* upload_to_s3 in a thread: records written to gzip_out so far (lines 94-98)
    progress,         \* history: <<batch, step>> for the steps a thread completed or failed in
    printed,          \* history: <<batch number, running total>> of the driver's "Adding" lines
    calls,            \* history: the NextToken passed in each listing call, 0 when absent
    returned          \* history: the NextToken of each listing response, 0 when absent

vars == <<pages, dpc, line, started, token, response, nextToken, pos, execution_ids,
          counter, q, unfinished_tasks, wpc, w_ids, w_read, num_processed, submitted,
          deliveries, objects, acked, failedBatches, counted, yielded, sourceFailed,
          driverFailed, w_enc, progress, printed, calls, returned>>

driverVars == <<dpc, line, started, token, response, nextToken, pos, execution_ids, counter>>
queueVars == <<q, unfinished_tasks>>
threadVars == <<wpc, w_ids, w_read>>
histVars == <<submitted, deliveries, objects, acked, failedBatches, counted, yielded,
              sourceFailed, driverFailed>>
logVars == <<progress, printed, calls, returned>>

-----------------------------------------------------------------------------
\* Helpers

RECURSIVE SumTo(_, _)
SumTo(f, n) == IF n = 0 THEN 0 ELSE f[n] + SumTo(f, n - 1)

RECURSIVE Concat(_)
Concat(ss) == IF ss = <<>> THEN <<>> ELSE Head(ss) \o Concat(Tail(ss))

\* The pages of a listing whose i-th page has sizes[i] ids; ids are 1, 2, 3, ...
PagesOf(sizes) ==
    [i \in 1..Len(sizes) |-> [j \in 1..sizes[i] |-> SumTo(sizes, i - 1) + j]]

PageSizes ==
    {s \in UNION {[1..n -> 0..MaxIds] : n \in 1..MaxPages} : SumTo(s, Len(s)) <= MaxIds}

CeilDiv(n, d) == (n + d - 1) \div d

-----------------------------------------------------------------------------
\* queue.Queue

\* q.join() returns when no task is unfinished.
AllTasksDone_QueueEmpty == Len(q) = 0
AllTasksDone == unfinished_tasks = 0

\* What q.get() leaves on the queue.
AfterGet_Peek(items) == items
AfterGet(items) == Tail(items)

-----------------------------------------------------------------------------
\* The code's tests

\* line 69: MAX_ATHENA_BATCH_SIZE == len(execution_ids)
BatchFull_OffByOne(ids) == Len(ids) = MAX_ATHENA_BATCH_SIZE + 1
BatchFull(ids) == Len(ids) = MAX_ATHENA_BATCH_SIZE

\* lines 47 and 76: truth value of a list
Truthy_Never(ids) == FALSE
Truthy_Always(ids) == TRUE
Truthy(ids) == ids # <<>>

\* lines 39-50: the order of the statements a thread runs for one batch
\* (process_batch: fetch, then upload_to_s3: encode, then put; then task_done,
\* then the += on num_processed)
NextStep_PutBeforeEncode(step) ==
    CASE step = "fetch" -> "put"
      [] step = "put" -> "encode"
      [] step = "encode" -> "task_done"
      [] step = "task_done" -> "load"
NextStep(step) ==
    CASE step = "fetch" -> "encode"
      [] step = "encode" -> "put"
      [] step = "put" -> "task_done"
      [] step = "task_done" -> "load"

\* lines 94-99: the for loop over query_stats has written n of the records;
\* the fetch is taken to return one record per id of the batch
EncodeDone_AfterFirst(n, ids) == n >= 1
EncodeDone(n, ids) == n = Len(ids)

\* line 46: the item q.get() returns
GetItem_Lifo(items) == items[Len(items)]
GetItem(items) == Head(items)

\* line 70: the numbers printed when a full batch is put
FullBatchLine(n) == <<n, n * MAX_ATHENA_BATCH_SIZE>>

\* lines 77-80: the numbers printed when the trailing batch is put
FinalBatchLine(n, ids) == <<n + 1, (n * MAX_ATHENA_BATCH_SIZE) + Len(ids)>>

\* line 128: 'NextToken' in response
HasNextToken_Never(next) == FALSE
HasNextToken(next) == next # 0

\* lines 59-62: both loops over range(max_threads) have ended
PoolReady_AfterFirst(n) == n >= 1
PoolReady(n) == n = max_threads

\* Where an exception raised by a listing call leaves the driver: nothing in
\* loop_and_fetch_stats catches it.
AfterListingError_Swallowed == [dpc |-> "Dispatching", line |-> "final"]
AfterListingError == [dpc |-> "Aborted", line |-> "none"]

-----------------------------------------------------------------------------
Init ==
    /\ pages \in {PagesOf(s) : s \in PageSizes}
    /\ dpc = "Idle"
    /\ line = "none"
    /\ started = 0
    /\ token = 0
    /\ response = <<>>
    /\ nextToken = 0
    /\ pos = 0
    /\ execution_ids = <<>>
    /\ counter = 1
    /\ q = <<>>
    /\ unfinished_tasks = 0
    /\ wpc = [w \in Threads |-> "unstarted"]
    /\ w_ids = [w \in Threads |-> <<>>]
    /\ w_read = [w \in Threads |-> 0]
    /\ num_processed = 0
    /\ submitted = <<>>
    /\ deliveries = <<>>
    /\ objects = EmptyBag
    /\ acked = EmptyBag
    /\ failedBatches = {}
    /\ counted = 0
    /\ yielded = <<>>
    /\ sourceFailed = FALSE
    /\ driverFailed = FALSE
    /\ w_enc = [w \in Threads |-> 0]
    /\ progress = {}
    /\ printed = <<>>
    /\ calls = <<>>
    /\ returned = <<>>

-----------------------------------------------------------------------------
\* Driver: loop_and_fetch_stats

\* lines 59-62: the threads are started one after the other
StartThread ==
    /\ dpc = "Idle"
    /\ started < max_threads
    /\ started' = started + 1
    /\ wpc' = [wpc EXCEPT ![started + 1] = "get"]
    /\ dpc' = IF PoolReady(started + 1) THEN "PoolStarted" ELSE "Idle"
    /\ UNCHANGED <<pages, line, token, response, nextToken, pos, execution_ids, counter,
                   queueVars, w_ids, w_read, num_processed, histVars>>
    /\ UNCHANGED <<w_enc, progress, printed, calls, returned>>

\* lines 64-66: the batch and the counter are initialised, the generator is created
BeginDispatch ==
    /\ dpc = "PoolStarted"
    /\ dpc' = "Dispatching"
    /\ line' = "call"
    /\ execution_ids' = <<>>
    /\ counter' = 1
    /\ token' = 0
    /\ UNCHANGED <<pages, started, response, nextToken, pos, queueVars, threadVars,
                   num_processed, histVars>>
    /\ UNCHANGED <<w_enc, progress, printed, calls, returned>>

\* line 124: a listing call returns a page
ListOk ==
    /\ dpc = "Dispatching" /\ line = "call"
    /\ response' = pages[token + 1]
    /\ nextToken' = IF token + 1 < Len(pages) THEN token + 1 ELSE 0
    /\ pos' = 0
    /\ line' = "page"
    /\ calls' = Append(calls, token)
    /\ returned' = Append(returned, nextToken')
    /\ UNCHANGED <<pages, dpc, started, token, execution_ids, counter, queueVars,
                   threadVars, num_processed, histVars>>
    /\ UNCHANGED <<w_enc, progress, printed>>

\* line 124: a listing call raises; the exception leaves loop_and_fetch_stats
ListFail ==
    /\ dpc = "Dispatching" /\ line = "call"
    /\ dpc' = AfterListingError.dpc
    /\ line' = AfterListingError.line
    /\ sourceFailed' = TRUE
    /\ calls' = Append(calls, token)
    /\ UNCHANGED <<pages, started, token, response, nextToken, pos, execution_ids, counter,
                   queueVars, threadVars, num_processed, submitted, deliveries, objects,
                   acked, failedBatches, counted, yielded, driverFailed>>
    /\ UNCHANGED <<w_enc, progress, printed, returned>>

\* lines 125-126 and 66-73: the generator yields the next id of the page, the
\* driver appends it and, when the batch is full, puts it on the queue
TakeId ==
    /\ dpc = "Dispatching" /\ line = "page"
    /\ pos < Len(response)
    /\ pos' = pos + 1
    /\ yielded' = Append(yielded, response[pos + 1])
    /\ LET ids == Append(execution_ids, response[pos + 1]) IN
        IF BatchFull(ids)
        THEN /\ q' = Append(q, ids)
             /\ unfinished_tasks' = unfinished_tasks + 1
             /\ submitted' = Append(submitted, ids)
             /\ printed' = Append(printed, FullBatchLine(counter))
             /\ execution_ids' = <<>>
             /\ counter' = counter + 1
        ELSE /\ execution_ids' = ids
             /\ UNCHANGED <<q, unfinished_tasks, submitted, counter, printed>>
    /\ UNCHANGED <<pages, dpc, line, started, token, response, nextToken, threadVars,
                   num_processed, deliveries, objects, acked, failedBatches, counted,
                   sourceFailed, driverFailed>>
    /\ UNCHANGED <<w_enc, progress, calls, returned>>

\* lines 128-131: the page is exhausted; follow NextToken or end the generator
PageEnd ==
    /\ dpc = "Dispatching" /\ line = "page"
    /\ pos = Len(response)
    /\ IF HasNextToken(nextToken)
       THEN /\ token' = nextToken
            /\ line' = "call"
       ELSE /\ token' = token
            /\ line' = "final"
    /\ UNCHANGED <<pages, dpc, started, response, nextToken, pos, execution_ids, counter,
                   queueVars, threadVars, num_processed, histVars>>
    /\ UNCHANGED <<w_enc, progress, printed, calls, returned>>

\* lines 76-81: the trailing partial batch, if any, is put on the queue
FinalPut ==
    /\ dpc = "Dispatching" /\ line = "final"
    /\ IF Truthy(execution_ids)
       THEN /\ q' = Append(q, execution_ids)
            /\ unfinished_tasks' = unfinished_tasks + 1
            /\ submitted' = Append(submitted, execution_ids)
            /\ printed' = Append(printed, FinalBatchLine(counter, execution_ids))
            /\ line' = "fetch"
            /\ dpc' = dpc
       ELSE /\ line' = "none"
            /\ dpc' = "Draining"
            /\ UNCHANGED <<q, unfinished_tasks, submitted, printed>>
    /\ UNCHANGED <<pages, started, token, response, nextToken, pos, execution_ids, counter,
                   threadVars, num_processed, deliveries, objects, acked, failedBatches,
                   counted, yielded, sourceFailed, driverFailed>>
    /\ UNCHANGED <<w_enc, progress, calls, returned>>

\* line 82: the driver itself fetches the details of the trailing batch
DriverFetchOk ==
    /\ dpc = "Dispatching" /\ line = "fetch"
    /\ line' = "upload"
    /\ UNCHANGED <<pages, dpc, started, token, response, nextToken, pos, execution_ids,
                   counter, queueVars, threadVars, num_processed, histVars>>
    /\ UNCHANGED <<w_enc, progress, printed, calls, returned>>

\* line 83: the driver itself uploads the trailing batch
DriverUploadOk ==
    /\ dpc = "Dispatching" /\ line = "upload"
    /\ objects' = objects (+) SetToBag({<<0, execution_ids>>})
    /\ line' = "none"
    /\ dpc' = "Draining"
    /\ UNCHANGED <<pages, started, token, response, nextToken, pos, execution_ids, counter,
                   queueVars, threadVars, num_processed, submitted, deliveries, acked,
                   failedBatches, counted, yielded, sourceFailed, driverFailed>>
    /\ UNCHANGED <<w_enc, progress, printed, calls, returned>>

\* lines 82-83: the driver's fetch, encode or upload raises
DriverCallFail ==
    /\ dpc = "Dispatching" /\ line \in {"fetch", "upload"}
    /\ dpc' = "Aborted"
    /\ line' = "none"
    /\ driverFailed' = TRUE
    /\ UNCHANGED <<pages, started, token, response, nextToken, pos, execution_ids, counter,
                   queueVars, threadVars, num_processed, submitted, deliveries, objects,
                   acked, failedBatches, counted, yielded, sourceFailed>>
    /\ UNCHANGED <<w_enc, progress, printed, calls, returned>>

\* line 85: q.join() returns
Join ==
    /\ dpc = "Draining"
    /\ AllTasksDone
    /\ dpc' = "Done"
    /\ UNCHANGED <<pages, line, started, token, response, nextToken, pos, execution_ids,
                   counter, queueVars, threadVars, num_processed, histVars>>
    /\ UNCHANGED <<w_enc, progress, printed, calls, returned>>

\* lines 141-143: the main thread has ended (by return or by exception); the
\* process exits and its daemon threads stop where they are
Exit ==
    /\ dpc \in {"Done", "Aborted"}
    /\ dpc' = "Exited"
    /\ UNCHANGED <<pages, line, started, token, response, nextToken, pos, execution_ids,
                   counter, queueVars, threadVars, num_processed, histVars>>
    /\ UNCHANGED <<w_enc, progress, printed, calls, returned>>

-----------------------------------------------------------------------------
\* Threads: do_work

Running == dpc # "Exited"

\* lines 46-47: q.get() returns the head of the queue; an empty item is dropped
\* without task_done
Get(w) ==
    /\ Running
    /\ wpc[w] = "get"
    /\ q # <<>>
    /\ q' = AfterGet(q)
    /\ w_ids' = [w_ids EXCEPT ![w] = GetItem(q)]
    /\ w_enc' = [w_enc EXCEPT ![w] = 0]
    /\ deliveries' = Append(deliveries, <<w, GetItem(q)>>)
    /\ wpc' = [wpc EXCEPT ![w] = IF Truthy(GetItem(q)) THEN "fetch" ELSE "get"]
    /\ UNCHANGED <<pages, driverVars, unfinished_tasks, w_read, num_processed, submitted,
                   objects, acked, failedBatches, counted, yielded, sourceFailed,
                   driverFailed>>
    /\ UNCHANGED <<progress, printed, calls, returned>>

\* line 39: get_query_executions returns
FetchOk(w) ==
    /\ Running
    /\ wpc[w] = "fetch"
    /\ wpc' = [wpc EXCEPT ![w] = NextStep("fetch")]
    /\ progress' = progress \cup {<<w_ids[w], "fetched">>}
    /\ UNCHANGED <<pages, driverVars, queueVars, w_ids, w_read, num_processed, histVars>>
    /\ UNCHANGED <<w_enc, printed, calls, returned>>

\* lines 94-98: one more record is serialised and written to gzip_out
EncodeOk(w) ==
    /\ Running
    /\ wpc[w] = "encode"
    /\ ~EncodeDone(w_enc[w], w_ids[w])
    /\ w_enc' = [w_enc EXCEPT ![w] = w_enc[w] + 1]
    /\ UNCHANGED <<pages, driverVars, queueVars, wpc, w_ids, w_read, num_processed, histVars>>
    /\ UNCHANGED <<progress, printed, calls, returned>>

\* line 99: the loop has ended and gzip_out is closed; the body is complete
GzipClose(w) ==
    /\ Running
    /\ wpc[w] = "encode"
    /\ EncodeDone(w_enc[w], w_ids[w])
    /\ wpc' = [wpc EXCEPT ![w] = NextStep("encode")]
    /\ progress' = progress \cup {<<w_ids[w], "encoded">>}
    /\ UNCHANGED <<pages, driverVars, queueVars, w_ids, w_read, num_processed, histVars>>
    /\ UNCHANGED <<w_enc, printed, calls, returned>>

\* lines 102-109: put_object returns
PutOk(w) ==
    /\ Running
    /\ wpc[w] = "put"
    /\ objects' = objects (+) SetToBag({<<w, w_ids[w]>>})
    /\ wpc' = [wpc EXCEPT ![w] = NextStep("put")]
    /\ UNCHANGED <<pages, driverVars, queueVars, w_ids, w_read, num_processed, submitted,
                   deliveries, acked, failedBatches, counted, yielded, sourceFailed,
                   driverFailed>>
    /\ UNCHANGED <<w_enc, progress, printed, calls, returned>>

\* lines 39, 97, 103: the fetch, the serialisation or the put raises; nothing in
\* do_work catches it, so the thread ends without calling task_done
CallFail(w) ==
    /\ Running
    /\ wpc[w] \in {"fetch", "encode", "put"}
    /\ wpc[w] = "encode" => ~EncodeDone(w_enc[w], w_ids[w])
    /\ wpc' = [wpc EXCEPT ![w] = "dead"]
    /\ failedBatches' = failedBatches \cup {w_ids[w]}
    /\ progress' = progress \cup {<<w_ids[w], wpc[w] \o "_failed">>}
    /\ UNCHANGED <<pages, driverVars, queueVars, w_ids, w_read, num_processed, submitted,
                   deliveries, objects, acked, counted, yielded, sourceFailed, driverFailed>>
    /\ UNCHANGED <<w_enc, printed, calls, returned>>

\* line 49: q.task_done()
TaskDone(w) ==
    /\ Running
    /\ wpc[w] = "task_done"
    /\ unfinished_tasks' = unfinished_tasks - 1
    /\ acked' = acked (+) SetToBag({w_ids[w]})
    /\ wpc' = [wpc EXCEPT ![w] = NextStep("task_done")]
    /\ UNCHANGED <<pages, driverVars, q, w_ids, w_read, num_processed, submitted,
                   deliveries, objects, failedBatches, counted, yielded, sourceFailed,
                   driverFailed>>
    /\ UNCHANGED <<w_enc, progress, printed, calls, returned>>

\* line 50, first half: num_processed is loaded (no lock is held)
LoadCounter(w) ==
    /\ Running
    /\ wpc[w] = "load"
    /\ w_read' = [w_read EXCEPT ![w] = num_processed]
    /\ wpc' = [wpc EXCEPT ![w] = "store"]
    /\ UNCHANGED <<pages, driverVars, queueVars, w_ids, num_processed, histVars>>
    /\ UNCHANGED <<w_enc, progress, printed, calls, returned>>

\* lines 50-51, second half: the sum is stored back, the line is printed and
\* the loop returns to q.get()
StoreCounter(w) ==
    /\ Running
    /\ wpc[w] = "store"
    /\ num_processed' = w_read[w] + Len(w_ids[w])
    /\ counted' = counted + Len(w_ids[w])
    /\ wpc' = [wpc EXCEPT ![w] = "get"]
    /\ UNCHANGED <<pages, driverVars, queueVars, w_ids, w_read, submitted, deliveries,
                   objects, acked, failedBatches, yielded, sourceFailed, driverFailed>>
    /\ UNCHANGED <<w_enc, progress, printed, calls, returned>>

-----------------------------------------------------------------------------
DriverOk ==
    \/ StartThread
    \/ BeginDispatch
    \/ ListOk
    \/ TakeId
    \/ PageEnd
    \/ FinalPut
    \/ DriverFetchOk
    \/ DriverUploadOk
    \/ Join
    \/ Exit

ThreadOk(w) ==
    \/ Get(w)
    \/ FetchOk(w)
    \/ EncodeOk(w)
    \/ GzipClose(w)
    \/ PutOk(w)
    \/ TaskDone(w)
    \/ LoadCounter(w)
    \/ StoreCounter(w)

Next ==
    \/ DriverOk
    \/ ListFail
    \/ DriverCallFail
    \/ \E w \in Threads : ThreadOk(w) \/ CallFail(w)

\* Every execution, failures included.
Spec == Init /\ [][Next]_vars

NextNoFail ==
    \/ DriverOk
    \/ \E w \in Threads : ThreadOk(w)

\* Executions in which no listing, fetch, encode or upload call fails; the
\* main thread and every started thread keep being scheduled.
LiveSpec ==
    /\ Init
    /\ [][NextNoFail]_vars
    /\ WF_vars(DriverOk)
    /\ \A w \in Threads : WF_vars(ThreadOk(w))

\* Executions with failures in which the main thread and every thread that has
\* not ended keep being scheduled; each call either returns or raises.
FairSpec ==
    /\ Init
    /\ [][Next]_vars
    /\ WF_vars(DriverOk \/ ListFail \/ DriverCallFail)
    /\ \A w \in Threads : WF_vars(ThreadOk(w) \/ CallFail(w))

-----------------------------------------------------------------------------
TypeOK ==
    /\ dpc \in {"Idle", "PoolStarted", "Dispatching", "Draining", "Done", "Aborted", "Exited"}
    /\ line \in {"none", "call", "page", "final", "fetch", "upload"}
    /\ started \in 0..max_threads
    /\ unfinished_tasks \in Nat
    /\ num_processed \in Nat
    /\ \A w \in Threads :
        /\ wpc[w] \in {"unstarted", "get", "fetch", "encode", "put", "task_done", "load",
                     "store", "dead"}
        /\ w_enc[w] \in 0..Len(w_ids[w])

-----------------------------------------------------------------------------
\* Vocabulary of the properties

Source == Concat(pages)
NumIds == Len(Source)
MaxBatches == CeilDiv(MaxIds, MAX_ATHENA_BATCH_SIZE)
NumAcked == BagCardinality(acked)
NumObjects == BagCardinality(objects)
Delivered(b) == \E k \in 1..Len(deliveries) : deliveries[k][2] = b
UploadedByThread(b) == \E w \in Threads : BagIn(<<w, b>>, objects)
InFlight == q # <<>> \/ \E w \in Threads : wpc[w] \in {"fetch", "encode", "put"}
AnyFailure == failedBatches # {} \/ sourceFailed \/ driverFailed
\* The Batcher has consumed the whole source and put the trailing batch.
BatcherFinished ==
    \/ dpc \in {"Draining", "Done"}
    \/ dpc = "Dispatching" /\ line \in {"fetch", "upload"}

\* C1: q.join() has returned only if the number of batches put equals the
\* number of task_done calls and every batch put has been acknowledged.
C1_JoinReturnsOnlyWhenAllDone ==
    dpc = "Done" =>
        /\ Len(submitted) = NumAcked
        /\ \A i \in 1..Len(submitted) : BagIn(submitted[i], acked)

C1_Witness == dpc = "Done" /\ Len(submitted) >= 2 /\ NumAcked >= 2

\* C2: a thread whose fetch, encode or upload raised has still marked the
\* batch it dequeued as done.
C2_FailedBatchIsMarkedDone ==
    \A w \in Threads : wpc[w] = "dead" => BagIn(w_ids[w], acked)

\* C3: in a run without failures that has returned from q.join(), the number
\* of objects put to the store is ceil(N / MAX_ATHENA_BATCH_SIZE).
C3_OneObjectPerBatch ==
    (dpc = "Done" /\ ~AnyFailure) =>
        NumObjects = CeilDiv(NumIds, MAX_ATHENA_BATCH_SIZE)

\* C4: once the source is exhausted the Batcher has put ceil(N /
\* MAX_ATHENA_BATCH_SIZE) batches, their concatenation in submission order is
\* the source sequence, and every batch but possibly the last is full.
C4_BatcherPartitionsSource ==
    BatcherFinished =>
        /\ Len(submitted) = CeilDiv(NumIds, MAX_ATHENA_BATCH_SIZE)
        /\ (Len(submitted) = 0) <=> (NumIds = 0)
        /\ Concat(submitted) = Source
        /\ \A i \in 1..Len(submitted) :
            /\ Len(submitted[i]) \in 1..MAX_ATHENA_BATCH_SIZE
            /\ i < Len(submitted) => Len(submitted[i]) = MAX_ATHENA_BATCH_SIZE

C4_Witness ==
    /\ BatcherFinished
    /\ Len(submitted) = 3
    /\ Len(submitted[3]) < MAX_ATHENA_BATCH_SIZE

\* C5: when the driver terminates, by return or by exception, no batch it put
\* is still queued or still being fetched, encoded or uploaded by a thread.
C5_DriverEndsOnlyWhenIdle ==
    dpc \in {"Done", "Aborted"} => ~InFlight

\* C6: with no failing call and fair scheduling the driver eventually returns
\* from q.join().
C6_DriverEventuallyDone == <>(dpc = "Done")

C6_Witness == dpc = "Done" /\ Len(submitted) >= 2

C6_WitnessEmpty == dpc = "Done" /\ NumIds = 0 /\ submitted = <<>> /\ objects = EmptyBag

\* C7: whenever no thread is in the middle of its +=, num_processed is the
\* total length of the batches whose += has completed.
C7_NoLostIncrement ==
    (\A w \in Threads : wpc[w] # "store") => num_processed = counted

\* C8: no batch is returned by two q.get calls, every batch returned was put,
\* and, unless some call fails, every batch put is eventually returned by a
\* q.get.
C8_NoDuplicateDelivery ==
    /\ \A j, k \in 1..Len(deliveries) :
        j # k => deliveries[j][2] # deliveries[k][2]
    /\ \A k \in 1..Len(deliveries) :
        \E i \in 1..Len(submitted) : submitted[i] = deliveries[k][2]

C8_ExactlyOneDelivery ==
    /\ []C8_NoDuplicateDelivery
    /\ \A i \in 1..MaxBatches :
        (Len(submitted) >= i) ~> (AnyFailure \/ (Len(submitted) >= i /\ Delivered(submitted[i])))

C8_Witness ==
    /\ ~AnyFailure
    /\ Len(submitted) >= 2
    /\ \A i \in 1..Len(submitted) : Delivered(submitted[i])
    /\ \E j, k \in 1..Len(deliveries) : deliveries[j][1] # deliveries[k][1]

\* C9: when only threads fail, every batch put whose processing does not fail
\* is eventually uploaded by some thread.
C9_OtherBatchesStillProcessed ==
    \A i \in 1..MaxBatches :
        (Len(submitted) >= i) ~>
            \/ sourceFailed \/ driverFailed
            \/ Len(submitted) >= i /\
                (submitted[i] \in failedBatches \/ UploadedByThread(submitted[i]))

RECURSIVE PagesBefore(_)
PagesBefore(n) == IF n = 0 THEN <<>> ELSE PagesBefore(n - 1) \o pages[n]

-----------------------------------------------------------------------------
\* Further vocabulary

Done(b, step) == <<b, step>> \in progress
InProcess(w) == wpc[w] \in {"fetch", "encode", "put", "task_done"}
TotalUpTo(k) == Len(Concat(SubSeq(submitted, 1, k)))
\* The generator has ended normally (the for loop on line 66 is over).
GeneratorDone == BatcherFinished \/ (dpc = "Dispatching" /\ line = "final")
Rank(state) ==
    CASE state = "Idle" -> 0
      [] state = "PoolStarted" -> 1
      [] state = "Dispatching" -> 2
      [] state = "Draining" -> 3
      [] state = "Done" -> 4
      [] OTHER -> 5

\* C11: for every batch a thread handles, task_done is called only after the
\* put has returned, the put is issued only after gzip_out is closed over all
\* the records, and encoding starts only after the fetch has returned.
C11_StepsStrictlyOrdered ==
    /\ \A i \in 1..Len(submitted) :
        LET b == submitted[i] IN
            /\ BagIn(b, acked) => UploadedByThread(b)
            /\ UploadedByThread(b) => Done(b, "encoded")
            /\ Done(b, "encoded") => Done(b, "fetched")
    /\ \A w \in Threads :
        /\ w_enc[w] > 0 => Done(w_ids[w], "fetched")
        /\ wpc[w] = "put" => Done(w_ids[w], "encoded") /\ ~UploadedByThread(w_ids[w])
        /\ wpc[w] = "task_done" => UploadedByThread(w_ids[w]) /\ ~BagIn(w_ids[w], acked)

C11_Witness ==
    \E i \in 1..Len(submitted) :
        /\ Len(submitted[i]) = MAX_ATHENA_BATCH_SIZE
        /\ BagIn(submitted[i], acked)

\* C12: the driver's state only advances along Idle, PoolStarted, Dispatching,
\* Draining, Done, one state at a time (an exception leaves the sequence for
\* good); every thread is started before the first batch is put; no batch is
\* put once the driver waits in q.join().
C12_DriverStatesInOrder ==
    /\ [][\/ Rank(dpc') = Rank(dpc)
          \/ Rank(dpc) < 4 /\ Rank(dpc') = Rank(dpc) + 1
          \/ Rank(dpc') = 5]_vars
    /\ []((submitted # <<>> \/ Rank(dpc) >= 1) => \A w \in Threads : wpc[w] # "unstarted")
    /\ [][Rank(dpc) >= 3 => (submitted' = submitted /\ Len(q') <= Len(q))]_vars

C12_Witness == dpc = "Done" /\ Len(submitted) >= 2 /\ started = max_threads

C14_ItemsNonEmptyAndAcked ==
    /\ \A i \in 1..Len(submitted) : Len(submitted[i]) \in 1..MAX_ATHENA_BATCH_SIZE
    /\ \A k \in 1..Len(q) : Len(q[k]) \in 1..MAX_ATHENA_BATCH_SIZE
    /\ \A k \in 1..Len(deliveries) : Truthy(deliveries[k][2])
    /\ Len(deliveries) =
        NumAcked + Cardinality({w \in Threads : InProcess(w)})
                 + Cardinality({w \in Threads : wpc[w] = "dead"})

C14_Witness == Len(deliveries) >= 3 /\ NumAcked = Len(deliveries)

\* C15: the k-th "Adding" line reports batch number k and the number of ids
\* put up to and including the k-th batch.
C15_ProgressLineIsExact ==
    /\ Len(printed) = Len(submitted)
    /\ \A k \in 1..Len(printed) : printed[k] = <<k, TotalUpTo(k)>>

\* C16: once q.join() has returned, num_processed is the total number of ids
\* in the batches put.
C16_CountCompleteAtJoin ==
    dpc = "Done" => num_processed = TotalUpTo(Len(submitted))

\* C17: within a thread's upload_to_s3 the put is issued only when every
\* record of the batch has been written, and a batch whose serialisation
\* failed in a thread has no object put by a thread.
C17_NoPartialUpload ==
    /\ \A w \in Threads :
        (wpc[w] = "put" \/ BagIn(<<w, w_ids[w]>>, objects)) => w_enc[w] = Len(w_ids[w])
    /\ \A i \in 1..Len(submitted) :
        Done(submitted[i], "encode_failed") => ~UploadedByThread(submitted[i])

C17_Witness ==
    \E w \in Threads :
        /\ wpc[w] = "dead"
        /\ Done(w_ids[w], "encode_failed")
        /\ w_enc[w] >= 1
        /\ ~UploadedByThread(w_ids[w])

\* C18: the first listing call carries no token, every later call carries the
\* NextToken of the response before it, no call follows a response without
\* NextToken, the ids yielded are those of the pages read, in order, and the
\* generator ends exactly on a response without NextToken.
C18_PaginationFollowsTokens ==
    /\ Len(calls) \in {Len(returned), Len(returned) + 1}
    /\ calls # <<>> => calls[1] = 0
    /\ \A k \in 2..Len(calls) : returned[k - 1] # 0 /\ calls[k] = returned[k - 1]
    /\ \A k \in 1..(Len(returned) - 1) : returned[k] # 0
    /\ (dpc = "Dispatching" /\ line = "page") =>
        yielded = PagesBefore(Len(returned) - 1) \o SubSeq(response, 1, pos)
    /\ GeneratorDone =>
        /\ returned # <<>> /\ returned[Len(returned)] = 0
        /\ Len(calls) = Len(pages)
        /\ yielded = Source
    /\ (returned # <<>> /\ returned[Len(returned)] = 0 /\ pos = Len(response)
            /\ Len(calls) = Len(returned))
        => (GeneratorDone \/ line = "page" \/ dpc \in {"Aborted", "Exited"})

C18_Witness ==
    /\ GeneratorDone
    /\ Len(calls) = 2
    /\ Len(pages[1]) >= 1 /\ Len(pages[2]) >= 2

\* C19: task_done has never been called more often than put, no batch is
\* acknowledged twice, and unfinished_tasks is the number of batches put and
\* not yet acknowledged.
C19_AcksNeverExceedPuts ==
    /\ NumAcked <= Len(submitted)
    /\ unfinished_tasks = Len(submitted) - NumAcked
    /\ \A b \in BagToSet(acked) :
        /\ CopiesIn(b, acked) = 1
        /\ \E i \in 1..Len(submitted) : submitted[i] = b

C19_Witness == NumAcked >= 3 /\ NumAcked = Len(submitted)

====
